---------------------------- MODULE Spec2Model ----------------------------
(***************************************************************************)
(* The semantic auto-categorization engine of interactive_table_app:       *)
(* label catalog construction, nearest-label matching, batch rescoring,    *)
(* import scoring and the user-correction store (src/project/routes.py,    *)
(* src/project/models.py).                                                 *)
(*                                                                         *)
(* Indices into Python lists are 0-based in the source; TLA+ sequences are *)
(* 1-based, so list[i] of the source is written list[i + 1] here and the   *)
(* matcher's index keeps its 0-based value.                                *)
(* Scores are kept in hundredths (Numeric(10, 2)): 100 is a cosine of 1.   *)
(***************************************************************************)
EXTENDS Integers, Sequences, FiniteSets, TLC

(***************************************************************************)
(* Bounds of the model.                                                    *)
(***************************************************************************)
\* Largest number of rows of the Transaction table.
MaxTxns == 2
\* Largest number of requests served in one run of the application.
MaxRequests == 3

(***************************************************************************)
(* Values.                                                                 *)
(***************************************************************************)
\* Python None / SQL NULL in a text column or a JSON value.
None == "None"
\* A NULL score (Transaction.score is nullable): the unscored state.
Unscored == <<>>

\* Transaction descriptions and Category keys: the texts that are embedded.
Descs == {"d1", "d2"}
Keys == {"k1", "k2"}
Texts == Keys \cup Descs

Projects == {1}

\* Embedding vectors the provider may return: two orthogonal directions, so
\* a cosine is 1 (100 hundredths) or 0.
Vectors == {<<1, 0>>, <<0, 1>>}

\* The embedding models considered. A cosine depends on the angle between
\* two vectors only, so the vector of "k1" is fixed; "d2" lies in the other
\* direction, and "k2" and "d1" in either one, so a description can match a
\* key, a stored correction, both (a tie) or neither.
Embeddings ==
    {e \in [Texts -> Vectors] : e["k1"] = <<1, 0>> /\ e["d2"] = <<0, 1>>}

\* The rows of the Category table, which no handler of the engine writes.
CategoryRows ==
    << [key |-> "k1", category |-> "Dining", destinationAcc |-> "AcctA"],
       [key |-> "k2", category |-> "Groceries", destinationAcc |-> "AcctB"] >>

\* The Category tables considered: empty, and the seeded rows.
CategoryCatalogs == {<<>>, CategoryRows}

VARIABLES
    categories,      \* the Category table, in query order
    corrections,     \* the UserCorrection table, in query order
    transactions,    \* the Transaction table; a row's id is its position
    emb,             \* the embedding model: text -> vector
    last,            \* what the latest request did (observation only)
    reqs,            \* update_transaction requests in flight (concurrent runs)
    backend,         \* how the database treats concurrent writers
    served           \* the number of requests served so far

vars == <<categories, corrections, transactions, emb, last, reqs, backend,
          served>>

\* A request is accepted and counted.
Serve == served < MaxRequests /\ served' = served + 1

(***************************************************************************)
(* sentence_transformers.util.cos_sim and argmax.                          *)
(***************************************************************************)
Dot(a, b) == a[1] * b[1] + a[2] * b[2]

RECURSIVE ISqrtFrom(_, _)
ISqrtFrom(n, r) == IF (r + 1) * (r + 1) > n THEN r ELSE ISqrtFrom(n, r + 1)

\* The integer square root.
ISqrt(n) == ISqrtFrom(n, 0)

Norm(a) == ISqrt(Dot(a, a))

\* dot(a, b) / (|a| * |b|), in hundredths.
CosSim(a, b) == (100 * Dot(a, b)) \div (Norm(a) * Norm(b))

\* util.cos_sim(desc_embedding, label_embeddings)[0]
CosineScores(desc_embedding, label_embeddings) ==
    [i \in 1..Len(label_embeddings) |-> CosSim(desc_embedding, label_embeddings[i])]

RECURSIVE ArgMaxLastFrom(_, _, _)
ArgMaxLastFrom(scores, i, best) ==
    IF i > Len(scores) THEN best
    ELSE ArgMaxLastFrom(scores, i + 1,
                        IF scores[i] >= scores[best] THEN i ELSE best)

\* A mutation of ArgMax: the last maximal entry instead of the first.
ArgMaxLast(scores) == ArgMaxLastFrom(scores, 2, 1) - 1

\* The scan for the maximum: position i is compared with the best position
\* so far, and replaces it only when its score is strictly larger.
RECURSIVE ArgMaxFrom(_, _, _)
ArgMaxFrom(scores, i, best) ==
    IF i > Len(scores) THEN best
    ELSE ArgMaxFrom(scores, i + 1,
                    IF scores[i] > scores[best] THEN i ELSE best)

\* cosine_scores.argmax(): the 0-based index of the first maximal entry.
ArgMax(scores) == ArgMaxFrom(scores, 2, 1) - 1

(***************************************************************************)
(* Label catalog.                                                          *)
(***************************************************************************)
\* A mutation of Labels: the corrections are put before the categories.
LabelsCorrectionsFirst(cats, user_corrections) ==
    [i \in 1..Len(user_corrections) |-> user_corrections[i].desc]
        \o [i \in 1..Len(cats) |-> cats[i].key]

\* labels.extend([c.key ...]); labels.extend([uc.desc ...])
Labels(cats, user_corrections) ==
    [i \in 1..Len(cats) |-> cats[i].key]
        \o [i \in 1..Len(user_corrections) |-> user_corrections[i].desc]

\* sbert_model.encode(labels): one vector per label, in label order.
Encode(model, texts) == [i \in 1..Len(texts) |-> model[texts[i]]]

\* label_embeddings = sbert_model.encode(labels), computed before the loop.
LabelEmbeddings(cats, user_corrections, model) ==
    Encode(model, Labels(cats, user_corrections))

\* if best_match_index < len(categories): categories[best_match_index]
\* else: user_corrections[best_match_index - len(categories)]
ResolveMatch(best_match_index, cats, user_corrections) ==
    IF best_match_index < Len(cats)
    THEN cats[best_match_index + 1]
    ELSE user_corrections[best_match_index - Len(cats) + 1]

\* One pass of the loop body that scores a description: the query is
\* embedded, compared with every label, and the best label is resolved.
\* `failing` are the texts the embedding provider raises on in this request.
\* With no label, cos_sim/argmax has nothing to select and raises.
ScoreDescription(desc, label_embeddings, cats, user_corrections, model, failing) ==
    IF desc \in failing
    THEN [raised |-> "EmbeddingFailure"]
    ELSE IF label_embeddings = <<>>
    THEN [raised |-> "RuntimeError"]
    ELSE LET cosine_scores == CosineScores(model[desc], label_embeddings)
             best_match_index == ArgMax(cosine_scores)
             matched == ResolveMatch(best_match_index, cats, user_corrections)
         IN  [raised |-> "",
              best_match_index |-> best_match_index,
              best_match_score |-> cosine_scores[best_match_index + 1],
              category |-> matched.category,
              destinationAcc |-> matched.destinationAcc]


(***************************************************************************)
(* Batch rescoring: _rescore_transactions.                                 *)
(***************************************************************************)
\* A mutation of QueryCalls: the label set is embedded again for each query.
QueryCallsReembed(calls) == calls \o <<"encode_labels", "encode_query">>

\* What one pass of a scoring loop asks of the embedding provider:
\* sbert_model.encode(desc) and nothing else.
QueryCalls(calls) == Append(calls, "encode_query")

\* A mutation of QueryAll: the rows of an earlier read, which the newest row
\* of the table was not part of.
QueryAllStale(table) ==
    IF table = <<>> THEN table ELSE SubSeq(table, 1, Len(table) - 1)

\* Category.query.all() and UserCorrection.query.all(): the committed rows
\* of the table at the time of the call, in table order.
QueryAll(table) == table

\* What a scoring request does before its loop: both tables are read and
\* the label list is embedded.
SetupCalls == <<"read_catalogs", "encode_labels">>

\* The texts the embedding provider may raise on during one request.
FailingChoices == {{}, {"d2"}}

\* The ids of the transactions of a project, in table order:
\* Transaction.query.filter_by(project_id=project_id).all()
RECURSIVE ProjectBatch(_, _, _)
ProjectBatch(txs, project_id, from) ==
    IF from > Len(txs) THEN <<>>
    ELSE IF txs[from].project_id = project_id
         THEN <<from>> \o ProjectBatch(txs, project_id, from + 1)
         ELSE ProjectBatch(txs, project_id, from + 1)

\* A mutation of RescoreLoop: each pass also clears the sourceAcc of the
\* transaction it scores.
RECURSIVE RescoreLoopClearsSource(_, _, _, _, _, _, _)
RescoreLoopClearsSource(acc, batch, label_embeddings, cats, user_corrections, model, failing) ==
    IF batch = <<>> \/ acc.raised # "" THEN acc
    ELSE LET id == Head(batch)
             r == ScoreDescription(acc.txs[id].desc, label_embeddings,
                                   cats, user_corrections, model, failing)
             next ==
                IF r.raised # ""
                THEN [acc EXCEPT !.calls = QueryCalls(@), !.raised = r.raised]
                ELSE [acc EXCEPT
                        !.calls = QueryCalls(@),
                        !.picks = Append(@, [id |-> id,
                                             index |-> r.best_match_index]),
                        !.txs[id].category = r.category,
                        !.txs[id].sourceAcc = None,
                        !.txs[id].destinationAcc = r.destinationAcc,
                        !.txs[id].score = <<r.best_match_score>>]
         IN  RescoreLoopClearsSource(next, Tail(batch), label_embeddings,
                                     cats, user_corrections, model, failing)

\* The for loop of _rescore_transactions over the rest of the batch. acc
\* holds the session's view of the table, the provider calls made, the
\* index picked for each transaction, and the exception that ended the loop.
RECURSIVE RescoreLoop(_, _, _, _, _, _, _)
RescoreLoop(acc, batch, label_embeddings, cats, user_corrections, model, failing) ==
    IF batch = <<>> \/ acc.raised # "" THEN acc
    ELSE LET id == Head(batch)
             r == ScoreDescription(acc.txs[id].desc, label_embeddings,
                                   cats, user_corrections, model, failing)
             next ==
                IF r.raised # ""
                THEN [acc EXCEPT !.calls = QueryCalls(@), !.raised = r.raised]
                ELSE [acc EXCEPT
                        !.calls = QueryCalls(@),
                        !.picks = Append(@, [id |-> id,
                                             index |-> r.best_match_index]),
                        !.txs[id].category = r.category,
                        !.txs[id].destinationAcc = r.destinationAcc,
                        !.txs[id].score = <<r.best_match_score>>]
         IN  RescoreLoop(next, Tail(batch), label_embeddings,
                         cats, user_corrections, model, failing)

\* _rescore_transactions(transactions): db.session.commit() is reached only
\* when the loop raised nothing; otherwise the exception leaves the handler
\* and the session's changes are dropped with the request.
RescoreTransactions(op, batch, failing) ==
    LET acc0 == [txs |-> transactions, calls |-> SetupCalls,
                 picks |-> <<>>, raised |-> ""]
        cats == QueryAll(categories)
        user_corrections == QueryAll(corrections)
        label_embeddings == LabelEmbeddings(cats, user_corrections, emb)
        acc == RescoreLoop(acc0, batch, label_embeddings,
                           cats, user_corrections, emb, failing)
    IN  /\ Serve
        /\ transactions' = IF acc.raised = "" THEN acc.txs ELSE transactions
        /\ last' = [op |-> op,
                    status |-> IF acc.raised = "" THEN 200 ELSE 500,
                    raised |-> acc.raised,
                    batch |-> batch,
                    picks |-> acc.picks,
                    calls |-> acc.calls,
                    catalog |-> [categories |-> cats,
                                 user_corrections |-> user_corrections]]
        /\ UNCHANGED <<categories, corrections, emb, reqs, backend>>

\* POST /project/<project_id>/refresh_scores
refresh_project_scores ==
    \E project_id \in Projects, failing \in FailingChoices :
        RescoreTransactions("refresh_project_scores",
                            ProjectBatch(transactions, project_id, 1), failing)

\* POST /transaction/<transaction_id>/refresh_score
refresh_transaction_score ==
    \E transaction_id \in 1..Len(transactions), failing \in FailingChoices :
        RescoreTransactions("refresh_transaction_score",
                            <<transaction_id>>, failing)

(***************************************************************************)
(* Import scoring: upload_transactions.                                    *)
(***************************************************************************)
\* datetime.strptime(transdate, '%Y-%m-%d') on the date texts of the model:
\* the parsed (year, month, day), or <<>> where strptime raises ValueError.
ParseDate(transdate) ==
    IF transdate = "2024-01-05" THEN <<2024, 1, 5>>
    ELSE IF transdate = "2024-02-29" THEN <<2024, 2, 29>>
    ELSE <<>>

\* The Numeric(10, 2) bind conversion of an amount text at flush time, in
\* hundredths, or <<>> where the conversion raises.
ToNumeric(amount) ==
    IF amount = "12.50" THEN <<1250>>
    ELSE IF amount = "3" THEN <<300>>
    ELSE <<>>

\* The data rows (after the header) an uploaded file may hold: well-formed
\* rows, a row with a field missing, a row whose date does not parse and a
\* row whose amount is no number.
GoodRows == { <<"2024-01-05", "d1", "12.50">>, <<"2024-02-29", "d2", "3">> }
BadRows ==
    { <<"2024-01-05", "d1">>,
      <<"05/01/2024", "d1", "12.50">>,
      <<"2024-01-05", "d1", "abc">> }

\* The uploaded files considered: no row, one row, or two rows of which
\* the first is well-formed.
Files ==
    {<<>>} \cup {<<r>> : r \in GoodRows \cup BadRows}
           \cup {<<g, r>> : g \in GoodRows, r \in GoodRows \cup BadRows}

\* The for loop of upload_transactions over the rest of the rows. acc holds
\* the Transaction objects added to the session so far, the provider calls
\* made, the index picked for each row and the exception that ended the loop.
RECURSIVE ImportLoop(_, _, _, _, _, _, _, _, _)
ImportLoop(acc, rows, project_id, source_asset_name, label_embeddings, cats, user_corrections, model, failing) ==
    IF rows = <<>> \/ acc.raised # "" THEN acc
    ELSE LET row == Head(rows) IN
         IF Len(row) # 3
         THEN [acc EXCEPT !.raised = "ValueError"]
         ELSE LET r == ScoreDescription(row[2], label_embeddings,
                                        cats, user_corrections, model, failing)
                  next ==
                     IF r.raised # ""
                     THEN [acc EXCEPT !.calls = QueryCalls(@),
                                      !.raised = r.raised]
                     ELSE IF ParseDate(row[1]) = <<>>
                     THEN [acc EXCEPT !.calls = QueryCalls(@),
                                      !.raised = "ValueError"]
                     ELSE [acc EXCEPT
                             !.calls = QueryCalls(@),
                             !.picks = Append(@, r.best_match_index),
                             !.added = Append(@,
                                [project_id |-> project_id,
                                 transdate |-> ParseDate(row[1]),
                                 desc |-> row[2],
                                 amount |-> row[3],
                                 category |-> r.category,
                                 sourceAcc |-> source_asset_name,
                                 destinationAcc |-> r.destinationAcc,
                                 score |-> <<r.best_match_score>>])]
              IN  ImportLoop(next, Tail(rows), project_id, source_asset_name,
                             label_embeddings, cats, user_corrections,
                             model, failing)

\* A mutation of Rollback: the rows added before the failure are kept.
RollbackKeepsAdded(table, added) ==
    table \o [i \in 1..Len(added) |->
                [added[i] EXCEPT !.amount =
                    IF ToNumeric(@) = <<>> THEN 0 ELSE ToNumeric(@)[1]]]

\* db.session.rollback(): the table as it was, none of the added rows.
Rollback(table, added) == table

\* db.session.commit() of the added rows: the amounts are converted and the
\* rows inserted.
CommitAdded(table, added) ==
    table \o [i \in 1..Len(added) |->
                [added[i] EXCEPT !.amount = ToNumeric(@)[1]]]

\* POST /project/<project_id>/upload
upload_transactions ==
    \E project_id \in Projects :
        /\ Serve
        /\ \/ \* 'file' not in request.files, or an empty filename
              /\ last' = [op |-> "upload_transactions", status |-> 400,
                          raised |-> "", rows |-> 0, added |-> 0,
                          before |-> Len(transactions),
                          picks |-> <<>>, calls |-> <<>>,
                          catalog |-> [categories |-> <<>>,
                                       user_corrections |-> <<>>]]
              /\ UNCHANGED transactions
           \/ \E rows \in Files, failing \in FailingChoices :
                /\ failing \subseteq {rows[i][2] : i \in 1..Len(rows)}
                /\ LET acc0 == [added |-> <<>>, calls |-> SetupCalls,
                                picks |-> <<>>, raised |-> ""]
                       cats == QueryAll(categories)
                       user_corrections == QueryAll(corrections)
                       label_embeddings ==
                           LabelEmbeddings(cats, user_corrections, emb)
                       acc == ImportLoop(acc0, rows, project_id, "Checking",
                                         label_embeddings, cats,
                                         user_corrections, emb, failing)
                       flushed == \A i \in 1..Len(acc.added) :
                                      ToNumeric(acc.added[i].amount) # <<>>
                       raised == IF acc.raised # "" THEN acc.raised
                                 ELSE IF ~flushed THEN "StatementError"
                                 ELSE ""
                   IN  /\ transactions' =
                            IF raised = ""
                            THEN CommitAdded(transactions, acc.added)
                            ELSE Rollback(transactions, acc.added)
                       /\ last' = [op |-> "upload_transactions",
                                   status |-> IF raised = "" THEN 201 ELSE 500,
                                   raised |-> raised, rows |-> Len(rows),
                                   added |-> Len(acc.added),
                                   before |-> Len(transactions),
                                   picks |-> acc.picks, calls |-> acc.calls,
                                   catalog |->
                                     [categories |-> cats,
                                      user_corrections |-> user_corrections]]
        /\ Len(transactions') <= MaxTxns
        /\ UNCHANGED <<categories, corrections, emb, reqs, backend>>

(***************************************************************************)
(* Correction store: update_transaction.                                   *)
(***************************************************************************)
\* A key that the JSON body of a request does not hold.
Absent == "Absent"

\* The JSON bodies of PUT /transaction/<id>/update: each key is absent,
\* null, or a text.
JsonBodies ==
    [category : {"Groceries", None, Absent},
     destinationAcc : {"AcctB", Absent}]

\* data.get(key, default)
DataGet(data, key, default) ==
    IF data[key] = Absent THEN default ELSE data[key]

\* A mutation of Changed: every edit is taken for a change.
ChangedAlways(old_category, old_destinationAcc, category, destinationAcc) ==
    TRUE

\* transaction_record.category != old_category
\*     or transaction_record.destinationAcc != old_destinationAcc
Changed(old_category, old_destinationAcc, category, destinationAcc) ==
    category # old_category \/ destinationAcc # old_destinationAcc

\* UserCorrection.query.filter_by(desc=desc).first(): the position of the
\* first correction with that description, 0 when there is none.
FindCorrection(store, desc) ==
    IF \E i \in 1..Len(store) : store[i].desc = desc
    THEN CHOOSE i \in 1..Len(store) :
            /\ store[i].desc = desc
            /\ \A j \in 1..(i - 1) : store[j].desc # desc
    ELSE 0

\* A mutation of ApplyCorrection: the correction is always inserted.
ApplyCorrectionInsertOnly(store, found, desc, category, destinationAcc) ==
    Append(store, [desc |-> desc, category |-> category,
                   destinationAcc |-> destinationAcc])

\* A mutation of ApplyCorrection: a found correction keeps its destination.
ApplyCorrectionCategoryOnly(store, found, desc, category, destinationAcc) ==
    IF found > 0
    THEN [store EXCEPT ![found].category = category]
    ELSE Append(store, [desc |-> desc, category |-> category,
                        destinationAcc |-> destinationAcc])

\* if correction: overwrite its category and destinationAcc
\* else: db.session.add(UserCorrection(desc, category, destinationAcc))
ApplyCorrection(store, found, desc, category, destinationAcc) ==
    IF found > 0
    THEN [store EXCEPT ![found].category = category,
                       ![found].destinationAcc = destinationAcc]
    ELSE Append(store, [desc |-> desc, category |-> category,
                        destinationAcc |-> destinationAcc])

\* The UPDATE of the transaction row: the columns whose value the session
\* changed are written.
ApplyTransaction(txs, id, old_category, old_destinationAcc, category, destinationAcc) ==
    [txs EXCEPT
        ![id].category = IF category # old_category THEN category ELSE @,
        ![id].destinationAcc =
            IF destinationAcc # old_destinationAcc THEN destinationAcc ELSE @]

\* UserCorrection.category and .destinationAcc are nullable=False: flushing
\* a correction that holds None raises IntegrityError.
ViolatesNotNull(category, destinationAcc) ==
    category = None \/ destinationAcc = None

\* PUT /transaction/<transaction_id>/update, run from its first line to its
\* commit with no other request in between.
update_transaction ==
    \E transaction_id \in 1..Len(transactions), data \in JsonBodies :
        LET record == transactions[transaction_id]
            old_category == record.category
            old_destinationAcc == record.destinationAcc
            category == DataGet(data, "category", old_category)
            destinationAcc ==
                DataGet(data, "destinationAcc", old_destinationAcc)
            changed == Changed(old_category, old_destinationAcc,
                               category, destinationAcc)
            found == FindCorrection(corrections, record.desc)
            raised == IF changed /\ ViolatesNotNull(category, destinationAcc)
                      THEN "IntegrityError" ELSE ""
        IN  /\ Serve
            /\ IF changed /\ raised = ""
               THEN /\ corrections' =
                          ApplyCorrection(corrections, found, record.desc,
                                          category, destinationAcc)
                    /\ transactions' =
                          ApplyTransaction(transactions, transaction_id,
                                           old_category, old_destinationAcc,
                                           category, destinationAcc)
               ELSE UNCHANGED <<corrections, transactions>>
            /\ last' = [op |-> "update_transaction",
                        status |-> IF raised = "" THEN 200 ELSE 500,
                        raised |-> raised,
                        transaction_id |-> transaction_id,
                        data |-> data,
                        recorded |-> changed /\ raised = "",
                        found |-> IF changed THEN found ELSE 0,
                        overwritten |->
                            IF changed /\ raised = "" /\ found > 0
                            THEN <<corrections[found].category,
                                   corrections[found].destinationAcc>>
                            ELSE <<>>]
            /\ UNCHANGED <<categories, emb, reqs, backend>>

(***************************************************************************)
(* The sequential system: one request at a time.                           *)
(***************************************************************************)
Requests == {1, 2}

\* A request that has not started. pc is the line the request is at.
IdleRequest ==
    [pc |-> "idle", transaction_id |-> 0, desc |-> "",
     old_category |-> "", old_destinationAcc |-> "",
     category |-> "", destinationAcc |-> "",
     changed |-> FALSE, found |-> 0, pending |-> "", lock |-> FALSE,
     status |-> 0, order |-> 0]

\* A transaction that was stored without having been scored.
UnscoredTransaction(desc) ==
    [project_id |-> 1, transdate |-> <<2024, 1, 5>>, desc |-> desc,
     amount |-> 1250, category |-> None, sourceAcc |-> "Checking",
     destinationAcc |-> None, score |-> Unscored]

\* The Transaction tables the application may start on.
InitialTables == {<<>>, <<UnscoredTransaction("d1")>>}

Init ==
    /\ categories \in CategoryCatalogs
    /\ corrections = <<>>
    /\ transactions \in InitialTables
    /\ emb \in Embeddings
    /\ served = 0
    /\ last = [op |-> "none"]
    /\ reqs = [r \in Requests |-> IdleRequest]
    /\ backend = "sqlite"

Next ==
    \/ refresh_project_scores
    \/ refresh_transaction_score
    \/ upload_transactions
    \/ update_transaction

Spec == Init /\ [][Next]_vars

(***************************************************************************)
(* Concurrent update_transaction requests. Each request has its own        *)
(* session: what it writes is seen by the others when it commits. The code *)
(* takes no lock and UserCorrection.desc carries no unique constraint, so  *)
(* the only ordering between two requests is what the database imposes:    *)
(*   "sqlite"      one writer at a time (config.py). The UPDATE of the     *)
(*                 transaction row, flushed before the lookup query, takes *)
(*                 the write lock, which is held until the commit; a       *)
(*                 writer that waits too long for it fails.                *)
(*   "postgresql"  row locks only (the dialect models.py is written for):  *)
(*                 the flushed UPDATE locks that transaction row alone.    *)
(***************************************************************************)
Backends == {"sqlite", "postgresql"}

\* Lines 313-326: the transaction is loaded, the old values are kept, the
\* new ones are set from the body and compared with the old ones.
Begin(r) ==
    /\ reqs[r].pc = "idle"
    /\ \E transaction_id \in 1..Len(transactions), data \in JsonBodies :
        LET record == transactions[transaction_id]
            category == DataGet(data, "category", record.category)
            destinationAcc ==
                DataGet(data, "destinationAcc", record.destinationAcc)
            changed == Changed(record.category, record.destinationAcc,
                               category, destinationAcc)
        IN  reqs' = [reqs EXCEPT ![r] =
                [IdleRequest EXCEPT
                    !.pc = IF changed THEN "lookup" ELSE "commit",
                    !.transaction_id = transaction_id,
                    !.desc = record.desc,
                    !.old_category = record.category,
                    !.old_destinationAcc = record.destinationAcc,
                    !.category = category,
                    !.destinationAcc = destinationAcc,
                    !.changed = changed]]
    /\ Serve
    /\ UNCHANGED <<categories, corrections, transactions, emb, last, backend>>

\* Another request holds a lock that the flush of request r waits for.
Blocked(r) ==
    \E o \in Requests \ {r} :
        /\ reqs[o].lock
        /\ \/ backend = "sqlite"
           \/ reqs[o].transaction_id = reqs[r].transaction_id

\* Line 328: the query flushes the session (the UPDATE of the transaction
\* row) and looks the description up among the committed corrections.
Lookup(r) ==
    /\ reqs[r].pc = "lookup"
    /\ ~Blocked(r)
    /\ reqs' = [reqs EXCEPT ![r].pc = "write",
                            ![r].lock = TRUE,
                            ![r].found = FindCorrection(corrections,
                                                        reqs[r].desc)]
    /\ UNCHANGED <<categories, corrections, transactions, emb, last, backend,
                   served>>

\* The flush of line 328 waits for the write lock of "sqlite" no longer than
\* the driver's busy timeout: then it raises OperationalError ("database is
\* locked"), and the request ends with nothing written.
LockTimeout(r) ==
    /\ reqs[r].pc = "lookup"
    /\ Blocked(r)
    /\ backend = "sqlite"
    /\ reqs' = [reqs EXCEPT
                  ![r].pc = "done",
                  ![r].status = 500,
                  ![r].order =
                      Cardinality({o \in Requests : reqs[o].pc = "done"}) + 1]
    /\ last' = [op |-> "update_transaction", status |-> 500,
                raised |-> "OperationalError",
                transaction_id |-> reqs[r].transaction_id,
                recorded |-> FALSE, found |-> 0]
    /\ UNCHANGED <<categories, corrections, transactions, emb, backend,
                   served>>

\* Lines 329-338: the found correction is changed in the session, or a new
\* one is added to it.
Write(r) ==
    /\ reqs[r].pc = "write"
    /\ reqs' = [reqs EXCEPT ![r].pc = "commit",
                            ![r].pending = IF reqs[r].found > 0
                                           THEN "update" ELSE "insert"]
    /\ UNCHANGED <<categories, corrections, transactions, emb, last, backend,
                   served>>

\* Line 340: db.session.commit(). The pending writes reach the tables, or
\* the flush raises and the request's transaction is rolled back.
Commit(r) ==
    /\ reqs[r].pc = "commit"
    /\ LET q == reqs[r]
           raised == IF q.changed /\ ViolatesNotNull(q.category,
                                                     q.destinationAcc)
                     THEN "IntegrityError" ELSE ""
           done == Cardinality({o \in Requests : reqs[o].pc = "done"})
       IN  /\ IF q.changed /\ raised = ""
              THEN /\ corrections' =
                         ApplyCorrection(corrections, q.found, q.desc,
                                         q.category, q.destinationAcc)
                   /\ transactions' =
                         ApplyTransaction(transactions, q.transaction_id,
                                          q.old_category, q.old_destinationAcc,
                                          q.category, q.destinationAcc)
              ELSE UNCHANGED <<corrections, transactions>>
           /\ reqs' = [reqs EXCEPT ![r].pc = "done",
                                   ![r].lock = FALSE,
                                   ![r].status = IF raised = "" THEN 200
                                                 ELSE 500,
                                   ![r].order = done + 1]
           /\ last' = [op |-> "update_transaction",
                       status |-> IF raised = "" THEN 200 ELSE 500,
                       raised |-> raised,
                       transaction_id |-> q.transaction_id,
                       recorded |-> q.changed /\ raised = "",
                       found |-> q.found]
    /\ UNCHANGED <<categories, emb, backend, served>>

\* The table after a file of two rows with the same description has been
\* imported.
ImportedTwice(cats, model) ==
    LET row == <<"2024-01-05", "d1", "12.50">>
        acc == ImportLoop([added |-> <<>>, calls |-> SetupCalls,
                           picks |-> <<>>, raised |-> ""],
                          <<row, row>>, 1, "Checking",
                          LabelEmbeddings(cats, <<>>, model),
                          cats, <<>>, model, {})
    IN  CommitAdded(<<>>, acc.added)

InitConcurrent ==
    /\ categories = CategoryRows
    /\ corrections = <<>>
    /\ emb \in Embeddings
    /\ transactions = ImportedTwice(categories, emb)
    /\ served = 0
    /\ last = [op |-> "none"]
    /\ reqs = [r \in Requests |-> IdleRequest]
    /\ backend \in Backends

NextConcurrent ==
    \E r \in Requests :
        Begin(r) \/ Lookup(r) \/ LockTimeout(r) \/ Write(r) \/ Commit(r)

SpecConcurrent == InitConcurrent /\ [][NextConcurrent]_vars

(***************************************************************************)
(* Properties.                                                             *)
(***************************************************************************)
RescoreOps == {"refresh_project_scores", "refresh_transaction_score"}

\* The corrections of the store that carry description d.
WithDesc(store, d) == {i \in 1..Len(store) : store[i].desc = d}

\* C1: in the sequential system the UserCorrection store never holds two
\* corrections with the same description.
C1_OneCorrectionPerDescription ==
    \A i, j \in 1..Len(corrections) :
        corrections[i].desc = corrections[j].desc => i = j

\* C1 witness: an edit recorded, for a description that already had a
\* correction, the very category and account that correction held.
C1_Witness ==
    /\ last.op = "update_transaction"
    /\ last.recorded
    /\ last.found > 0
    /\ last.overwritten = <<corrections[last.found].category,
                            corrections[last.found].destinationAcc>>

\* C3: an edit that records (d, categoryB, destB) when d already has a
\* correction leaves exactly one correction for d, which carries categoryB
\* and destB, and leaves the corrections of other descriptions as they were.
C3_CorrectionOverwrite ==
    [][ (last'.op = "update_transaction" /\ last'.recorded /\ last'.found > 0)
        => LET id == last'.transaction_id
               d == transactions[id].desc
           IN  /\ Cardinality(WithDesc(corrections, d)) = 1
               /\ Cardinality(WithDesc(corrections', d)) = 1
               /\ Len(corrections') = Len(corrections)
               /\ \A i \in 1..Len(corrections) :
                    IF corrections[i].desc = d
                    THEN /\ corrections'[i].desc = d
                         /\ corrections'[i].category =
                                DataGet(last'.data, "category",
                                        transactions[id].category)
                         /\ corrections'[i].destinationAcc =
                                DataGet(last'.data, "destinationAcc",
                                        transactions[id].destinationAcc)
                    ELSE corrections'[i] = corrections[i] ]_vars

\* C3 witness: an edit overwrote a correction that held another category or
\* another account.
C3_Witness ==
    /\ last.op = "update_transaction"
    /\ last.recorded
    /\ last.found > 0
    /\ last.overwritten # <<corrections[last.found].category,
                            corrections[last.found].destinationAcc>>

\* C4: an update_transaction call whose resulting category and
\* destinationAcc equal the transaction's prior values changes neither the
\* UserCorrection store nor the transaction.
C4_UnchangedEditWritesNothing ==
    [][ (/\ last'.op = "update_transaction"
         /\ LET t == transactions[last'.transaction_id]
            IN  /\ DataGet(last'.data, "category", t.category) = t.category
                /\ DataGet(last'.data, "destinationAcc", t.destinationAcc)
                       = t.destinationAcc)
        => /\ corrections' = corrections
           /\ transactions' = transactions
           /\ last'.status = 200 ]_vars

\* C4 witness: an edit that names the category the transaction already has
\* was served while the store held a correction.
C4_Witness ==
    /\ last.op = "update_transaction"
    /\ ~last.recorded
    /\ last.status = 200
    /\ last.data.category = transactions[last.transaction_id].category
    /\ last.data.category # None
    /\ corrections # <<>>

\* Two requests have committed that both recorded a correction, with values
\* the store accepts, for the same description.
BothRecordedSameDesc ==
    /\ \A r \in Requests :
         /\ reqs[r].pc = "done"
         /\ reqs[r].pending # ""
         /\ ~ViolatesNotNull(reqs[r].category, reqs[r].destinationAcc)
    /\ reqs[1].desc = reqs[2].desc

SerializedWritersKeepOneCorrection ==
    backend = "sqlite" => C1_OneCorrectionPerDescription

\* Neither table holds a label.
EmptyCatalogs == categories = <<>> /\ corrections = <<>>

\* A scoring request got as far as comparing a description with the labels.
ComparedWithLabels ==
    /\ last.op \in RescoreOps \cup {"upload_transactions"}
    /\ Len(last.calls) > Len(SetupCalls)
    /\ last.raised # "EmbeddingFailure"

\* C5: with both catalogs empty, scoring a transaction ends in an explicit
\* EmptyLabelCatalog outcome, and the transactions are left as they were.
C5_EmptyCatalogIsSignalled ==
    (EmptyCatalogs /\ ComparedWithLabels) =>
        /\ last.raised = "EmptyLabelCatalog"
        /\ last.op \in RescoreOps =>
             \A k \in 1..Len(last.batch) :
                transactions[last.batch[k]].score = Unscored

\* The records behind the label list, in label order: the Category rows,
\* then the UserCorrection rows, each with the text it is matched by.
AllRecords ==
    [i \in 1..Len(categories) |->
        [text |-> categories[i].key,
         category |-> categories[i].category,
         destinationAcc |-> categories[i].destinationAcc]]
    \o [i \in 1..Len(corrections) |->
        [text |-> corrections[i].desc,
         category |-> corrections[i].category,
         destinationAcc |-> corrections[i].destinationAcc]]

\* The similarity, in hundredths, of a description and a label text.
Similarity(desc, text) == CosSim(emb[desc], emb[text])

\* The pairs <<transaction, index picked for it>> of the latest request whose
\* description is known: those of a rescoring, those of a committed import.
Picked ==
    IF last.op \in RescoreOps
    THEN {<<last.picks[k].id, last.picks[k].index>> : k \in 1..Len(last.picks)}
    ELSE IF last.op = "upload_transactions" /\ last.status = 201
    THEN {<<last.before + k, last.picks[k]>> : k \in 1..Len(last.picks)}
    ELSE {}

\* The pairs of Picked whose result was committed.
Written == IF last.op # "none" /\ last.status \in {200, 201} THEN Picked ELSE {}

\* C6: the index the matcher selects lies in 0 .. c+u-1, and the category,
\* destinationAcc and score written to the transaction are those of the
\* record at that position of the concatenation categories, corrections
\* (categories[i] if i < c, user_corrections[i - c] otherwise).
C6_OriginResolution ==
    /\ \A p \in Picked : 0 <= p[2] /\ p[2] < Len(categories) + Len(corrections)
    /\ \A p \in Written :
        LET t == transactions[p[1]]
            origin == IF p[2] < Len(categories)
                      THEN categories[p[2] + 1]
                      ELSE corrections[p[2] - Len(categories) + 1]
        IN  /\ t.category = origin.category
            /\ t.destinationAcc = origin.destinationAcc
            /\ origin.category = AllRecords[p[2] + 1].category
            /\ t.score = <<Similarity(t.desc, AllRecords[p[2] + 1].text)>>

\* C6 witness: with categories in the catalog, a transaction was given the
\* category of a correction.
C6_Witness ==
    \E p \in Written :
        /\ Len(categories) > 0
        /\ p[2] >= Len(categories)
        /\ transactions[p[1]].category =
               corrections[p[2] - Len(categories) + 1].category

\* C7: the selected label has the largest similarity, and every label
\* before it has a strictly smaller one: among equal scores the lowest
\* index wins, so a Category wins over a UserCorrection.
C7_TieBreakLowestIndex ==
    \A p \in Picked :
        LET desc == transactions[p[1]].desc
            best == Similarity(desc, AllRecords[p[2] + 1].text)
        IN  \A j \in 1..Len(AllRecords) :
                /\ Similarity(desc, AllRecords[j].text) <= best
                /\ j < p[2] + 1 => Similarity(desc, AllRecords[j].text) < best

\* C7 witness: a Category label was selected while a UserCorrection label
\* had the same similarity.
C7_Witness ==
    \E p \in Picked :
        /\ p[2] < Len(categories)
        /\ \E j \in (Len(categories) + 1)..Len(AllRecords) :
             Similarity(transactions[p[1]].desc, AllRecords[j].text) =
             Similarity(transactions[p[1]].desc, AllRecords[p[2] + 1].text)

\* C8: an import in which a row fails leaves the Transaction table as it
\* was; an import in which no row fails appends one transaction per row.
C8_ImportAllOrNothing ==
    [][ last'.op = "upload_transactions" =>
          IF last'.status = 201
          THEN /\ Len(transactions') = Len(transactions) + last'.rows
               /\ SubSeq(transactions', 1, Len(transactions)) = transactions
          ELSE transactions' = transactions ]_vars

\* C8 witness: an import failed after rows had been added to the session,
\* and the table holds none of them.
C8_Witness ==
    /\ last.op = "upload_transactions"
    /\ last.status = 500
    /\ last.added >= 1
    /\ Len(transactions) = last.before

\* C9: an embedding failure on one transaction of a rescored batch leaves
\* the request successful and every other transaction of the batch scored.
C9_FailureSkipsOneItem ==
    (last.op \in RescoreOps /\ last.raised = "EmbeddingFailure") =>
        /\ last.status = 200
        /\ \A k \in 1..Len(last.batch) :
             k # Len(last.picks) + 1 =>
                transactions[last.batch[k]].score # Unscored

\* The number of entries of a sequence of calls that are call c.
Count(calls, c) == Cardinality({k \in 1..Len(calls) : calls[k] = c})

\* C10: a scoring request reads the catalogs once and embeds the label set
\* once, both before the first description is embedded, whatever the
\* number of transactions; each transaction costs one query embedding.
C10_LabelsEmbeddedOnce ==
    (last.op \in RescoreOps \cup {"upload_transactions"} /\ last.status # 400)
    => /\ Count(last.calls, "read_catalogs") = 1
       /\ Count(last.calls, "encode_labels") = 1
       /\ last.calls[1] = "read_catalogs"
       /\ last.calls[2] = "encode_labels"
       /\ Count(last.calls, "encode_query") = Len(last.calls) - 2
       /\ last.status \in {200, 201} =>
            Count(last.calls, "encode_query") =
                IF last.op \in RescoreOps THEN Len(last.batch) ELSE last.rows

\* C10 witness: a batch of two transactions was rescored.
C10_Witness ==
    /\ last.op = "refresh_project_scores"
    /\ last.status = 200
    /\ Len(last.batch) >= 2
    /\ Len(last.picks) = Len(last.batch)

\* The ids of a batch.
BatchIds(batch) == {batch[k] : k \in 1..Len(batch)}

\* C11: a rescoring request (refresh_project_scores or
\* refresh_transaction_score) creates and deletes no transaction, changes
\* nothing but the category, destinationAcc and score of the transactions of
\* its batch, and leaves the Category and UserCorrection tables as they were.
C11_RescoringFrame ==
    [][ last'.op \in RescoreOps =>
          /\ Len(transactions') = Len(transactions)
          /\ \A i \in 1..Len(transactions) :
                /\ transactions'[i].desc = transactions[i].desc
                /\ transactions'[i].transdate = transactions[i].transdate
                /\ transactions'[i].amount = transactions[i].amount
                /\ transactions'[i].sourceAcc = transactions[i].sourceAcc
                /\ transactions'[i].project_id = transactions[i].project_id
                /\ i \notin BatchIds(last'.batch) =>
                      transactions'[i] = transactions[i]
          /\ categories' = categories
          /\ corrections' = corrections ]_vars

\* C11 witness: one transaction was rescored and committed while another
\* transaction, outside the batch, is still unscored, and a correction is
\* stored.
C11_Witness ==
    /\ last.op = "refresh_transaction_score"
    /\ last.status = 200
    /\ corrections # <<>>
    /\ \A i \in BatchIds(last.batch) : transactions[i].score # Unscored
    /\ \E i \in 1..Len(transactions) :
          /\ i \notin BatchIds(last.batch)
          /\ transactions[i].score = Unscored

\* The requests that score descriptions against the label catalog.
ScoringOps == RescoreOps \cup {"upload_transactions"}

\* The correction that the latest request, an update_transaction, recorded.
RecordedCorrection ==
    [desc |-> transactions[last.transaction_id].desc,
     category |-> transactions[last.transaction_id].category,
     destinationAcc |-> transactions[last.transaction_id].destinationAcc]

\* C12: every rescoring or import request scores against the Category and
\* UserCorrection rows as they are when it starts, never against rows kept
\* from an earlier request; so when it directly follows an update_transaction
\* that recorded a correction, its catalog holds that correction with the
\* category and destinationAcc just recorded.
C12_Freshness ==
    [][ (last'.op \in ScoringOps /\ last'.status # 400) =>
          /\ last'.catalog.categories = categories
          /\ last'.catalog.user_corrections = corrections
          /\ (last.op = "update_transaction" /\ last.recorded) =>
                \E k \in 1..Len(last'.catalog.user_corrections) :
                    last'.catalog.user_corrections[k] = RecordedCorrection
      ]_vars

\* C12 witness: a scoring request that read a stored correction matched a
\* description with it, ahead of the categories of a non-empty catalog.
C12_Witness ==
    /\ last.op \in ScoringOps
    /\ last.status \in {200, 201}
    /\ categories # <<>>
    /\ last.catalog.user_corrections # <<>>
    /\ last.catalog.user_corrections = corrections
    /\ \E p \in Picked : p[2] >= Len(last.catalog.categories)

\* The latest request is an update_transaction that recorded a correction
\* for its transaction, and this step rescores that transaction.
RescoredAfterEdit ==
    /\ last.op = "update_transaction"
    /\ last.recorded
    /\ last'.op \in RescoreOps
    /\ last.transaction_id \in BatchIds(last'.batch)

\* The request keeps the category and destinationAcc of the transaction that
\* was edited.
EditKept ==
    /\ transactions'[last.transaction_id].category =
           transactions[last.transaction_id].category
    /\ transactions'[last.transaction_id].destinationAcc =
           transactions[last.transaction_id].destinationAcc

\* C13 as stated: whatever the Category table holds, a rescoring that
\* follows the edit of a transaction, with no change of either catalog in
\* between, leaves the transaction the category and destinationAcc of the
\* edit.
C13_EditSurvivesRescoring ==
    [][ RescoredAfterEdit => EditKept ]_vars

\* Every label ahead of the correction stored for the edited transaction's
\* description is strictly less similar to the description than the
\* description is to itself.
NoEarlierLabelTies ==
    LET desc == transactions[last.transaction_id].desc
        at == Len(categories) + FindCorrection(corrections, desc)
    IN  \A j \in 1..(at - 1) :
            Similarity(desc, AllRecords[j].text) < Similarity(desc, desc)

\* C13 amended: the edit survives the rescoring when no label ahead of the
\* recorded correction (a Category key, or an older correction of another
\* description) is as similar to the description as the description itself.
C13_EditSurvivesWithoutTie ==
    [][ (RescoredAfterEdit /\ NoEarlierLabelTies) => EditKept ]_vars

\* C13 witness: with categories in the catalog, the only transaction was
\* rescored and committed with the category and destinationAcc of the
\* correction stored for its own description.
C13_Witness ==
    /\ last.op \in RescoreOps
    /\ last.status = 200
    /\ categories # <<>>
    /\ Len(transactions) = 1
    /\ \E p \in Written :
          /\ p[2] >= Len(categories)
          /\ LET uc == corrections[p[2] - Len(categories) + 1]
             IN  /\ uc.desc = transactions[p[1]].desc
                 /\ uc.category = transactions[p[1]].category
                 /\ uc.destinationAcc = transactions[p[1]].destinationAcc

=============================================================================
